---- MODULE Spec2Model ----
(***************************************************************************)
(* Model of src/TimeTable.py: the Table slot grid (add_subject,            *)
(* get_cred_hours) and the build_tables search.                            *)
(*                                                                         *)
(* Subject objects are records carrying an id: Python compares Subject     *)
(* instances by identity (the class defines no __eq__), so "subject in     *)
(* self.subjects" is membership of the id.  Names are strings; their       *)
(* ordering (Python's str "<" used by sorted()) is given by StrOrder.      *)
(***************************************************************************)
EXTENDS Integers, Sequences, FiniteSets, TLC

\* ------------------------------------------------------------------------
\* Program constants
\* ------------------------------------------------------------------------
WEEK_DAYS == <<"Sun", "Mon", "Tue", "Wed", "Thu", "Sat">>

Size == 12

DaySet == {WEEK_DAYS[i] : i \in 1..Len(WEEK_DAYS)}

\* ------------------------------------------------------------------------
\* Bounds of the model
\* ------------------------------------------------------------------------
MaxCatalog == 2
MaxPriority == 1
MaxSubjects == 2
MaxTables == 2
MaxOtherCalls == 1

\* ------------------------------------------------------------------------
\* Catalog entities
\* ------------------------------------------------------------------------
Event(name, day, periods) ==
    [name |-> name,
     schedule |-> [i \in 1..Len(periods) |-> <<day, periods[i]>>]]

Group(name, events) == [name |-> name, events |-> events]

Subject(id, name, cred_hours, groups) ==
    [id |-> id, name |-> name, cred_hours |-> cred_hours, groups |-> groups]

\* The subject objects the inputs are drawn from.
\*  1: one group, one cell.
\*  2: two groups declared in descending name order; G1 covers two cells
\*     of which the second is the cell of object 1, G2 has two events.
\*  3: a second object with the name of object 1 and the same cell.
\*  4: a group listing one cell twice, a group with a period past the
\*     grid, a group with a negative period.
Pool ==
    { Subject(1, "A", 3, << Group("G1", << Event("Lec", "Sun", <<1>>) >>) >>),
      Subject(2, "B", 3, << Group("G2", << Event("Lec", "Mon", <<0>>),
                                           Event("Lab", "Mon", <<2, 3>>) >>),
                            Group("G1", << Event("Lec", "Sun", <<0, 1>>) >>) >>),
      Subject(3, "A", 2, << Group("G1", << Event("Tut", "Sun", <<1>>) >>) >>),
      Subject(4, "C", 1, << Group("G1", << Event("Lec", "Tue", <<3, 3>>) >>),
                            Group("G2", << Event("Lec", "Tue", <<4, 12>>) >>),
                            Group("G3", << Event("Lec", "Sun", <<0 - 1>>) >>) >>) }

Ids == {s.id : s \in Pool}

\* Further subject objects, used by the calls of ScenarioCalls only.
\*  5: three groups; G1 meets the cell of object 1 at its second cell, G2
\*     is the first cell of G1 alone, G3 is elsewhere.
\*  6: one group, one cell met by no other object.
\*  7: sorts before object 2; its G1 meets both groups of object 2, its
\*     G2 meets none.
\*  8: sorts before object 2; its first group has a period past the grid.
\*  20 + p, 40 + p: "MathA" and "MathB", 3 credit hours each, whose only
\*     groups are the same Monday period p.
ScenarioPool ==
    { Subject(5, "B", 3, << Group("G1", << Event("Lec", "Sun", <<0, 1>>) >>),
                            Group("G2", << Event("Lec", "Sun", <<0>>) >>),
                            Group("G3", << Event("Lec", "Mon", <<0>>) >>) >>),
      Subject(6, "C", 2, << Group("G1", << Event("Lec", "Wed", <<0>>) >>) >>),
      Subject(7, "A", 2, << Group("G1", << Event("Lec", "Sun", <<0>>),
                                           Event("Lab", "Mon", <<0>>) >>),
                            Group("G2", << Event("Lec", "Tue", <<5>>) >>) >>),
      Subject(8, "A", 1, << Group("G1", << Event("Lec", "Thu", <<5, 12>>) >>),
                            Group("G2", << Event("Lec", "Thu", <<6>>) >>) >>) }
    \cup { Subject(20 + p, "MathA", 3,
                   << Group("G1", << Event("Lec", "Mon", <<p>>) >>) >>) :
              p \in 0..(Size - 1) }
    \cup { Subject(40 + p, "MathB", 3,
                   << Group("G1", << Event("Lec", "Mon", <<p>>) >>) >>) :
              p \in 0..(Size - 1) }

Reverse(seq) == [i \in 1..Len(seq) |-> seq[Len(seq) + 1 - i]]

\* The id of the twin of object i.
Twin(i) == 100 + i

\* For each of the objects 1 to 8 a twin: another Subject built with the
\* same name, credit hours and groups, the groups passed to the
\* constructor in the reverse order.
TwinPool ==
    {Subject(Twin(s.id), s.name, s.cred_hours, Reverse(s.groups)) :
        s \in {o \in Pool \cup ScenarioPool : o.id <= 8}}

Obj(i) == CHOOSE s \in Pool \cup ScenarioPool \cup TwinPool : s.id = i

GroupNames == {"G1", "G2", "G3"}

\* Python's ordering of the strings used as names.
StrOrder == <<"A", "B", "C", "G1", "G2", "G3", "MathA", "MathB">>

Rank(str) == CHOOSE i \in 1..Len(StrOrder) : StrOrder[i] = str

StrLess(a, b) == Rank(a) < Rank(b)

\* ------------------------------------------------------------------------
\* Table
\* ------------------------------------------------------------------------
None == [subject |-> 0, group |-> "", event |-> ""]

\* Mutant of Cell: the group name is stored in the place of the event name.
CellGroupForEvent(subject, group, event) ==
    [subject |-> subject.id, group |-> group, event |-> group]

Cell(subject, group, event) ==
    [subject |-> subject.id, group |-> group, event |-> event]

\* Table.__init__
NewTable ==
    [cells |-> [d \in DaySet |-> [p \in 0..(Size - 1) |-> None]],
     subjects |-> << >>,
     cred_hours |-> 0]

RECURSIVE SumCred(_)
SumCred(subjects) ==
    IF subjects = << >> THEN 0
    ELSE Obj(Head(subjects)).cred_hours + SumCred(Tail(subjects))

\* Mutant of GetCredHours: the cached field is not reset before the sum.
GetCredHoursNoReset(t) ==
    [t EXCEPT !.cred_hours = t.cred_hours + SumCred(t.subjects)]

\* Table.get_cred_hours: the table with the cached field recomputed; the
\* value returned is the new cached field.
GetCredHours(t) == [t EXCEPT !.cred_hours = SumCred(t.subjects)]

\* Python list indexing self[day][period]: a negative index counts from
\* the end, an index outside [-Size, Size) raises IndexError.
InRange(period) == (0 - Size) <= period /\ period < Size

Index(period) == IF period < 0 THEN period + Size ELSE period

RECURSIVE EventsPlacements(_, _)
\* The (day, period) placements of a group's events, in scan order, each
\* with the event name written into the cell.
EventsPlacements(events, i) ==
    IF i > Len(events) THEN << >>
    ELSE [j \in 1..Len(events[i].schedule) |->
             [day |-> events[i].schedule[j][1],
              period |-> events[i].schedule[j][2],
              event |-> events[i].name]]
         \o EventsPlacements(events, i + 1)

RECURSIVE GroupsPlacements(_, _, _)
\* The loop "for group in subject.groups: if group.name == group_name":
\* the placements of every group carrying that name, in declared order.
GroupsPlacements(groups, group_name, i) ==
    IF i > Len(groups) THEN << >>
    ELSE (IF groups[i].name = group_name
          THEN EventsPlacements(groups[i].events, 1) ELSE << >>)
         \o GroupsPlacements(groups, group_name, i + 1)

\* Mutant of CellFree: the occupancy of the cell is not looked at.
CellFreeAlways(cells, day, period) == TRUE

\* The check of one target cell: the cell must be None to be written.
CellFree(cells, day, period) == cells[day][Index(period)] = None

RECURSIVE Place(_, _, _, _, _)
\* The scan of add_subject: each cell is checked and written in turn; a
\* raise leaves the cells written so far in place.
Place(cells, subject, group_name, pl, i) ==
    IF i > Len(pl) THEN [cells |-> cells, result |-> "ok"]
    ELSE IF ~InRange(pl[i].period)
         THEN [cells |-> cells, result |-> "IndexError"]
    ELSE IF ~CellFree(cells, pl[i].day, pl[i].period)
         THEN [cells |-> cells, result |-> "ScheduleError"]
    ELSE Place([cells EXCEPT ![pl[i].day][Index(pl[i].period)] =
                    Cell(subject, group_name, pl[i].event)],
               subject, group_name, pl, i + 1)

InSeq(x, seq) == \E i \in 1..Len(seq) : seq[i] = x

\* Mutant of AddSubject: the check "subject in self.subjects" is missing.
AddSubjectNoDuplicateCheck(t, subject, group_name) ==
    IF ~(\E i \in 1..Len(subject.groups) : subject.groups[i].name = group_name)
    THEN [table |-> t, result |-> "ValueError"]
    ELSE LET r == Place(t.cells, subject, group_name,
                        GroupsPlacements(subject.groups, group_name, 1), 1)
         IN IF r.result = "ok"
            THEN [table |-> GetCredHours([t EXCEPT
                                !.cells = r.cells,
                                !.subjects = Append(t.subjects, subject.id)]),
                  result |-> "ok"]
            ELSE [table |-> [t EXCEPT !.cells = r.cells], result |-> r.result]

\* Table.add_subject: the table after the call and how the call ended.
AddSubject(t, subject, group_name) ==
    IF ~(\E i \in 1..Len(subject.groups) : subject.groups[i].name = group_name)
    THEN [table |-> t, result |-> "ValueError"]
    ELSE IF InSeq(subject.id, t.subjects)
    THEN [table |-> t, result |-> "DuplicateSubjectError"]
    ELSE LET r == Place(t.cells, subject, group_name,
                        GroupsPlacements(subject.groups, group_name, 1), 1)
         IN IF r.result = "ok"
            THEN [table |-> GetCredHours([t EXCEPT
                                !.cells = r.cells,
                                !.subjects = Append(t.subjects, subject.id)]),
                  result |-> "ok"]
            ELSE [table |-> [t EXCEPT !.cells = r.cells], result |-> r.result]

\* value.index(item): the first index of the day list that holds item.
FirstIndex(list, item) ==
    CHOOSE q \in 0..(Size - 1) :
        /\ list[q] = item
        /\ \A r \in 0..(q - 1) : list[r] # item

RECURSIVE MergeFrom(_, _, _)
\* The loops of merge over other.items() and over each day list, k
\* counting the cells already visited: the cell of this table at the
\* first index of the visited item is checked, then written.
MergeFrom(cells, other, k) ==
    IF k >= Len(WEEK_DAYS) * Size THEN [cells |-> cells, result |-> "ok"]
    ELSE LET day == WEEK_DAYS[(k \div Size) + 1]
             item == other.cells[day][k % Size]
             idx == FirstIndex(other.cells[day], item)
         IN IF cells[day][idx] # None
            THEN [cells |-> cells, result |-> "ScheduleError"]
            ELSE MergeFrom([cells EXCEPT ![day][idx] = item], other, k + 1)

\* Mutant of Merge: other's occupied cells are written without looking at
\* this table's cells.
MergeUnchecked(t, other) ==
    [table |-> [t EXCEPT !.cells =
                   [day \in DaySet |-> [p \in 0..(Size - 1) |->
                       IF other.cells[day][p] # None THEN other.cells[day][p]
                       ELSE t.cells[day][p]]]],
     result |-> "ok"]

\* Table.merge: the table after the call and how the call ended.
Merge(t, other) ==
    LET r == MergeFrom(t.cells, other, 0)
    IN [table |-> [t EXCEPT !.cells = r.cells], result |-> r.result]

\* ------------------------------------------------------------------------
\* build_tables: enumeration of the candidate subject sets
\* ------------------------------------------------------------------------
\* sorted(seq, key=...): Python's sort is stable, so an element goes after
\* every element already placed whose key is not greater than its own.
\* The order of the keys is passed as the set "less" of the pairs <<x, y>>
\* of elements with key(x) < key(y).
InsertBy(sorted, x, less) ==
    LET k == Cardinality({i \in 1..Len(sorted) : <<x, sorted[i]>> \notin less})
    IN SubSeq(sorted, 1, k) \o <<x>> \o SubSeq(sorted, k + 1, Len(sorted))

SortBy(seq, less) ==
    LET f[i \in 0..Len(seq)] ==
            IF i = 0 THEN << >> ELSE InsertBy(f[i - 1], seq[i], less)
    IN f[Len(seq)]

\* The elements of a sequence.
ElemsOf(seq) == {seq[i] : i \in 1..Len(seq)}

\* Python's "<" on tuples of strings: the first differing position
\* decides, a proper prefix is smaller.
TupleLess(a, b) ==
    LET n == IF Len(a) < Len(b) THEN Len(a) ELSE Len(b)
        diff == {i \in 1..n : a[i] # b[i]}
    IN IF diff = {} THEN Len(a) < Len(b)
       ELSE LET i == CHOOSE j \in diff : \A h \in diff : j <= h
            IN StrLess(a[i], b[i])

RECURSIVE Combinations(_, _)
\* itertools.combinations(seq, k): the k-element subsequences by position,
\* in lexicographic order of the positions.
Combinations(seq, k) ==
    IF k = 0 THEN << << >> >>
    ELSE IF Len(seq) < k THEN << >>
    ELSE LET with == Combinations(Tail(seq), k - 1)
         IN [i \in 1..Len(with) |-> <<Head(seq)>> \o with[i]]
            \o Combinations(Tail(seq), k)

Max(a, b) == IF a >= b THEN a ELSE b

\* Mutant of ActualPriority: the priority list is taken as given.
ActualPriorityUnfiltered(catalog, priority) == priority

\* s for s in priority_subjects if s in all_available_subjects
ActualPriority(catalog, priority) ==
    SelectSeq(priority, LAMBDA s : InSeq(s, catalog))

\* s for s in all_available_subjects if s not in actual_priority_subjects
NonPriority(catalog, priority) ==
    SelectSeq(catalog, LAMBDA s : ~InSeq(s, ActualPriority(catalog, priority)))

\* The candidate sets built for one k: the priority subjects followed by
\* each combination, kept when the size is within the bounds.
CandidatesOfSize(a, k) ==
    LET combos == Combinations(NonPriority(a.catalog, a.priority), k)
        sets == [i \in 1..Len(combos) |->
                    ActualPriority(a.catalog, a.priority) \o combos[i]]
    IN SelectSeq(sets, LAMBDA c : a.min_subjects <= Len(c)
                                  /\ Len(c) <= a.max_subjects)

RECURSIVE CandidatesFrom(_, _, _)
\* for k in range(min_non_priority_to_add, max_non_priority_to_add + 1)
CandidatesFrom(a, k, kmax) ==
    IF k > kmax THEN << >>
    ELSE (IF k < 0 THEN << >> ELSE CandidatesOfSize(a, k))
         \o CandidatesFrom(a, k + 1, kmax)

NamesOf(ids) == [i \in 1..Len(ids) |-> Obj(ids[i]).name]

\* The sort key of a candidate set: tuple(sorted(sub.name for sub in s_list))
SortKey(c) ==
    SortBy(NamesOf(c),
           {x \in ElemsOf(NamesOf(c)) \X ElemsOf(NamesOf(c)) : StrLess(x[1], x[2])})

CandidateLess(c1, c2) == TupleLess(SortKey(c1), SortKey(c2))

\* all_candidate_subject_sets after the sort
AllCandidates(a) ==
    LET np == Len(ActualPriority(a.catalog, a.priority))
        all == CandidatesFrom(a, Max(0, a.min_subjects - np), a.max_subjects - np)
    IN SortBy(all, {x \in ElemsOf(all) \X ElemsOf(all) : CandidateLess(x[1], x[2])})

SubjectLess(i, j) == StrLess(Obj(i).name, Obj(j).name)

\* sorted(candidate_subjects_set, key=lambda s: s.name)
SubjectsToSchedule(c) ==
    SortBy(c, {x \in ElemsOf(c) \X ElemsOf(c) : SubjectLess(x[1], x[2])})

GroupLess(g, h) == StrLess(g.name, h.name)

\* Mutant of DeterministicGroups: the groups in their declared order.
DeclaredGroups(subject) == subject.groups

\* sorted(subject.groups, key=lambda g: g.name)
DeterministicGroups(subject) ==
    SortBy(subject.groups,
           {x \in ElemsOf(subject.groups) \X ElemsOf(subject.groups) :
               GroupLess(x[1], x[2])})

\* Mutant of CredOk: the upper limit is not compared.
CredOkNoUpper(a, t) == a.min_cred_hours <= t.cred_hours

\* min_cred_hours <= current_cred_hours <= max_cred_hours
CredOk(a, t) == a.min_cred_hours <= t.cred_hours /\ t.cred_hours <= a.max_cred_hours

\* Mutant of Enough: ">" in the place of ">=".
EnoughStrict(valid, a) == Len(valid) > a.num_tables_to_generate

\* len(valid_tables) >= num_tables_to_generate
Enough(valid, a) == Len(valid) >= a.num_tables_to_generate

\* ------------------------------------------------------------------------
\* State
\* ------------------------------------------------------------------------
VARIABLES
    table,          \* a Table object driven by direct calls
    last,           \* the last direct call: operation, arguments, outcome,
                    \* the table before the call
    args,           \* the arguments of the build_tables call
    pc,             \* the position of build_tables
    cands,          \* all_candidate_subject_sets, sorted
    ci,             \* index of candidate_subjects_set in cands
    current_table,  \* current_table
    sts,            \* subjects_to_schedule
    si,             \* index of subject in sts
    gi,             \* index of group in deterministic_groups
    conflict,       \* conflict_found_for_set
    added,          \* subjects_successfully_added, each with the group
                    \* name of the call that succeeded
    failed,         \* the (subject, group name) calls of this attempt that
                    \* raised ScheduleError
    valid_tables,   \* valid_tables
    warned,         \* the shortfall warning was printed
    log             \* the finished attempts, one record per candidate set

tvars == <<table, last>>

bvars == <<args, pc, cands, ci, current_table, sts, si, gi, conflict, added,
           failed, valid_tables, warned, log>>

vars == <<table, last, args, pc, cands, ci, current_table, sts, si, gi,
          conflict, added, failed, valid_tables, warned, log>>

NoCall == [op |-> "none", subject |-> 0, group |-> "", result |-> "",
           before |-> NewTable]

NoArgs == [catalog |-> << >>, min_subjects |-> 0, max_subjects |-> 0,
           min_cred_hours |-> 0, max_cred_hours |-> 0,
           priority |-> << >>, num_tables_to_generate |-> 0]

\* The sequences over S of length at most n.
SeqsUpTo(S, n) == UNION {[1..m -> S] : m \in 0..n}

\* The (min_cred_hours, max_cred_hours) pairs a caller passes: totals
\* above 3 refused, totals below 4 refused.
CredLimits == {<<0, 3>>, <<4, 10>>}

\* The build_tables calls considered.
Calls ==
    {[catalog |-> c, min_subjects |-> mn, max_subjects |-> mx,
      min_cred_hours |-> cr[1], max_cred_hours |-> cr[2],
      priority |-> p, num_tables_to_generate |-> n] :
        c \in SeqsUpTo(Ids, MaxCatalog), mn \in 0..MaxSubjects,
        mx \in 0..MaxSubjects, cr \in CredLimits,
        p \in SeqsUpTo(Ids, MaxPriority), n \in 0..MaxTables}

\* Scenario A of the specification: two 3-credit subjects whose only
\* groups hold the same Monday period, 1..2 subjects, 0..10 credit hours,
\* 5 tables asked for; any period, either catalog order.
ScenarioACalls ==
    {[catalog |-> c, min_subjects |-> 1, max_subjects |-> 2,
      min_cred_hours |-> 0, max_cred_hours |-> 10,
      priority |-> << >>, num_tables_to_generate |-> 5] :
        c \in UNION {{<<20 + p, 40 + p>>, <<40 + p, 20 + p>>} :
                        p \in 0..(Size - 1)}}

\* Catalogs over the objects of ScenarioPool: a subject whose failed
\* group leaves a cell that its next group needs; a subject listed twice
\* among four; a greedy first choice that blocks the next subject; a
\* subject whose placement raises IndexError before another subject.
ScenarioCatalogs == {<<1, 5>>, <<1, 1, 6, 2>>, <<7, 2>>, <<8, 2>>}

ScenarioCalls ==
    {[catalog |-> c, min_subjects |-> mn, max_subjects |-> mx,
      min_cred_hours |-> cr[1], max_cred_hours |-> cr[2],
      priority |-> p, num_tables_to_generate |-> n] :
        c \in ScenarioCatalogs, mn \in {1, 2}, mx \in {2, 3},
        cr \in {<<0, 10>>, <<4, 10>>}, p \in {<< >>, <<1>>}, n \in {1, 5}}

BuildIdle ==
    /\ cands = << >>
    /\ ci = 0
    /\ current_table = NewTable
    /\ sts = << >>
    /\ si = 0
    /\ gi = 0
    /\ conflict = FALSE
    /\ added = << >>
    /\ failed = << >>
    /\ valid_tables = << >>
    /\ warned = FALSE
    /\ log = << >>

\* ------------------------------------------------------------------------
\* Direct calls on one Table
\* ------------------------------------------------------------------------
TableInit ==
    /\ table = NewTable
    /\ last = NoCall
    /\ args = NoArgs
    /\ pc = "idle"
    /\ BuildIdle

\* A caller invokes table.add_subject(subject, group_name).
CallAddSubject ==
    /\ \E s \in Pool, g \in GroupNames :
        LET r == AddSubject(table, s, g) IN
        /\ table' = r.table
        /\ last' = [op |-> "add_subject", subject |-> s.id, group |-> g,
                    result |-> r.result, before |-> table]
    /\ UNCHANGED bvars

\* A caller invokes table.get_cred_hours().
CallGetCredHours ==
    /\ table' = GetCredHours(table)
    /\ last' = [op |-> "get_cred_hours", subject |-> 0, group |-> "",
                result |-> "ok", before |-> table]
    /\ UNCHANGED bvars

TableNext == CallAddSubject \/ CallGetCredHours

SpecTable == TableInit /\ [][TableNext]_vars

\* ------------------------------------------------------------------------
\* Direct calls on one Table, merge included
\* ------------------------------------------------------------------------
RECURSIVE BuiltTables(_)
\* The tables a caller can build with at most n add_subject calls.
BuiltTables(n) ==
    IF n = 0 THEN {NewTable}
    ELSE BuiltTables(n - 1) \cup
         {AddSubject(t, s, g).table :
             t \in BuiltTables(n - 1), s \in Pool, g \in GroupNames}

OtherTables == BuiltTables(MaxOtherCalls)

\* A caller invokes table.merge(other) with another table it has built.
CallMerge ==
    /\ \E other \in OtherTables :
        LET r == Merge(table, other) IN
        /\ table' = r.table
        /\ last' = [op |-> "merge", subject |-> 0, group |-> "",
                    result |-> r.result, before |-> table, other |-> other]
    /\ UNCHANGED bvars

MergeNext == CallAddSubject \/ CallMerge

SpecMerge == TableInit /\ [][MergeNext]_vars

\* ------------------------------------------------------------------------
\* Properties of direct calls on one Table (SpecTable)
\* ------------------------------------------------------------------------
Slots == DaySet \X (0..(Size - 1))

\* The placements add_subject scans for the last call.
LastPlacements == GroupsPlacements(Obj(last.subject).groups, last.group, 1)

\* The grid slots those placements address.
LastSlots ==
    {<<LastPlacements[i].day, Index(LastPlacements[i].period)>> :
        i \in {j \in 1..Len(LastPlacements) : InRange(LastPlacements[j].period)}}

\* Some placement of the last call addressed a cell that was occupied
\* before the call began.
LastTargetedOccupied ==
    \E x \in LastSlots : last.before.cells[x[1]][x[2]] # None

RECURSIVE CredOfSet(_)
\* The credit hours of a set of subject objects, each counted once.
CredOfSet(S) ==
    IF S = {} THEN 0
    ELSE LET x == CHOOSE y \in S : TRUE
         IN Obj(x).cred_hours + CredOfSet(S \ {x})

\* C1: an add_subject call that raises ScheduleError because a placement
\* of the chosen group targets a cell occupied before the call leaves the
\* cells, the placed-subject list and the credit-hour total as they were.
C1_ConflictLeavesTableUnchanged ==
    (/\ last.op = "add_subject"
     /\ last.result = "ScheduleError"
     /\ LastTargetedOccupied)
    => table = last.before

\* C3: after a successful add_subject every cell listed by an event of the
\* chosen group holds (subject, group name, that event's name), every
\* other cell keeps its value, and the subject was appended exactly once.
C3_SuccessWritesExactlyTheGroupCells ==
    (last.op = "add_subject" /\ last.result = "ok")
    => /\ \A i \in 1..Len(LastPlacements) :
            /\ InRange(LastPlacements[i].period)
            /\ table.cells[LastPlacements[i].day][Index(LastPlacements[i].period)]
                 = [subject |-> last.subject, group |-> last.group,
                    event |-> LastPlacements[i].event]
       /\ \A x \in Slots \ LastSlots :
            table.cells[x[1]][x[2]] = last.before.cells[x[1]][x[2]]
       /\ table.subjects = Append(last.before.subjects, last.subject)
       /\ Cardinality({i \in 1..Len(table.subjects) :
                          table.subjects[i] = last.subject}) = 1

\* C3 witness: a two-event group was placed on a grid that already held
\* another subject.
C3_Witness ==
    /\ last.op = "add_subject"
    /\ last.result = "ok"
    /\ last.subject = 2
    /\ last.group = "G2"
    /\ last.before.subjects # << >>
    /\ table.cells["Mon"][2].event = "Lab"

\* C4: add_subject with a subject already in the placed-subject list and
\* any of its group names raises DuplicateSubjectError and changes nothing.
C4_DuplicateSubjectRejected ==
    (/\ last.op = "add_subject"
     /\ last.subject \in ElemsOf(last.before.subjects)
     /\ \E i \in 1..Len(Obj(last.subject).groups) :
            Obj(last.subject).groups[i].name = last.group)
    => /\ last.result = "DuplicateSubjectError"
       /\ table = last.before

\* C4 witness: the subject was placed with G2 and is offered again with
\* G1, whose cells are all free.
C4_Witness ==
    /\ last.op = "add_subject"
    /\ last.result = "DuplicateSubjectError"
    /\ last.subject = 2
    /\ last.group = "G1"
    /\ last.before.cells["Mon"][0] = [subject |-> 2, group |-> "G2", event |-> "Lec"]
    /\ last.before.cells["Sun"][0] = None
    /\ last.before.cells["Sun"][1] = None

\* C5: the cached cred_hours field, which get_cred_hours returns, is the
\* sum of cred_hours over exactly the placed subjects after any sequence
\* of calls, and a get_cred_hours call changes neither the cells nor the
\* placed-subject list nor, when repeated, its result.
C5_CredHoursIsSumOfPlaced ==
    /\ table.cred_hours = CredOfSet(ElemsOf(table.subjects))
    /\ last.op = "get_cred_hours"
       => /\ table.cells = last.before.cells
          /\ table.subjects = last.before.subjects
          /\ GetCredHours(table).cred_hours = table.cred_hours

\* C5 witness: get_cred_hours is called on a grid holding two subjects
\* and a cell left by a call that failed.
C5_Witness ==
    /\ last.op = "get_cred_hours"
    /\ Len(table.subjects) >= 2
    /\ table.cred_hours > 3
    /\ \E x \in Slots :
          /\ table.cells[x[1]][x[2]] # None
          /\ table.cells[x[1]][x[2]].subject \notin ElemsOf(table.subjects)

\* ------------------------------------------------------------------------
\* build_tables
\* ------------------------------------------------------------------------
Init ==
    /\ table = NewTable
    /\ last = NoCall
    /\ args \in Calls
    /\ pc = "start"
    /\ BuildIdle

\* Steps 1-4 up to the sort: the candidate sets are built and sorted.
Enumerate ==
    /\ pc = "start"
    /\ cands' = AllCandidates(args)
    /\ valid_tables' = << >>
    /\ ci' = 1
    /\ pc' = "loop"
    /\ UNCHANGED <<table, last, args, current_table, sts, si, gi, conflict,
                   added, failed, warned, log>>

\* The candidate loop ends: no candidate is left, or enough tables exist.
LoopExit ==
    /\ pc = "loop"
    /\ ci > Len(cands) \/ Enough(valid_tables, args)
    /\ pc' = "warn"
    /\ UNCHANGED <<table, last, args, cands, ci, current_table, sts, si, gi,
                   conflict, added, failed, valid_tables, warned, log>>

\* The loop body starts on the next candidate set with a fresh Table.
BeginCandidate ==
    /\ pc = "loop"
    /\ ci <= Len(cands)
    /\ ~Enough(valid_tables, args)
    /\ current_table' = NewTable
    /\ added' = << >>
    /\ failed' = << >>
    /\ conflict' = FALSE
    /\ sts' = SubjectsToSchedule(cands[ci])
    /\ si' = 1
    /\ pc' = "subject"
    /\ UNCHANGED <<table, last, args, cands, ci, gi, valid_tables, warned, log>>

\* The subject loop takes the next subject and sorts its groups.
NextSubject ==
    /\ pc = "subject"
    /\ si <= Len(sts)
    /\ gi' = 1
    /\ pc' = "group"
    /\ UNCHANGED <<table, last, args, cands, ci, current_table, sts, si,
                   conflict, added, failed, valid_tables, warned, log>>

\* The subject loop ends with every subject handled.
SubjectsDone ==
    /\ pc = "subject"
    /\ si > Len(sts)
    /\ pc' = "filter"
    /\ UNCHANGED <<table, last, args, cands, ci, current_table, sts, si, gi,
                   conflict, added, failed, valid_tables, warned, log>>

\* Mutant of TryGroup: any other error is handled like ScheduleError, the
\* next group of the subject is tried.
TryGroupRetrying ==
    /\ pc = "group"
    /\ gi <= Len(DeterministicGroups(Obj(sts[si])))
    /\ LET g == DeterministicGroups(Obj(sts[si]))[gi].name
           r == AddSubject(current_table, Obj(sts[si]), g)
       IN /\ current_table' = r.table
          /\ CASE r.result = "ok" ->
                    /\ added' = Append(added, <<sts[si], g>>)
                    /\ si' = si + 1
                    /\ pc' = "subject"
                    /\ UNCHANGED <<gi, failed, conflict>>
               [] r.result = "ScheduleError" ->
                    /\ failed' = Append(failed, <<sts[si], g>>)
                    /\ gi' = gi + 1
                    /\ UNCHANGED <<si, pc, added, conflict>>
               [] r.result = "DuplicateSubjectError" ->
                    /\ si' = si + 1
                    /\ pc' = "subject"
                    /\ UNCHANGED <<gi, added, failed, conflict>>
               [] OTHER ->
                    /\ failed' = Append(failed, <<sts[si], g>>)
                    /\ gi' = gi + 1
                    /\ UNCHANGED <<si, pc, added, conflict>>
    /\ UNCHANGED <<table, last, args, cands, ci, sts, valid_tables, warned, log>>

\* One pass of the group loop: add_subject is called with the next group
\* name and the outcome is dispatched by the try/except.
TryGroup ==
    /\ pc = "group"
    /\ gi <= Len(DeterministicGroups(Obj(sts[si])))
    /\ LET g == DeterministicGroups(Obj(sts[si]))[gi].name
           r == AddSubject(current_table, Obj(sts[si]), g)
       IN /\ current_table' = r.table
          /\ CASE r.result = "ok" ->
                    /\ added' = Append(added, <<sts[si], g>>)
                    /\ si' = si + 1
                    /\ pc' = "subject"
                    /\ UNCHANGED <<gi, failed, conflict>>
               [] r.result = "ScheduleError" ->
                    /\ failed' = Append(failed, <<sts[si], g>>)
                    /\ gi' = gi + 1
                    /\ UNCHANGED <<si, pc, added, conflict>>
               [] r.result = "DuplicateSubjectError" ->
                    /\ si' = si + 1
                    /\ pc' = "subject"
                    /\ UNCHANGED <<gi, added, failed, conflict>>
               [] OTHER ->
                    /\ conflict' = TRUE
                    /\ pc' = "filter"
                    /\ UNCHANGED <<si, gi, added, failed>>
    /\ UNCHANGED <<table, last, args, cands, ci, sts, valid_tables, warned, log>>

\* Mutant of GroupsExhausted: the conflict flag is not set.
GroupsExhaustedNoFlag ==
    /\ pc = "group"
    /\ gi > Len(DeterministicGroups(Obj(sts[si])))
    /\ pc' = "filter"
    /\ UNCHANGED <<table, last, args, cands, ci, current_table, sts, si, gi,
                   conflict, added, failed, valid_tables, warned, log>>

\* The group loop ends without a successful add: the set is given up.
GroupsExhausted ==
    /\ pc = "group"
    /\ gi > Len(DeterministicGroups(Obj(sts[si])))
    /\ conflict' = TRUE
    /\ pc' = "filter"
    /\ UNCHANGED <<table, last, args, cands, ci, current_table, sts, si, gi,
                   added, failed, valid_tables, warned, log>>

\* Mutant of Filter: a set given up with a conflict is filtered and kept
\* like any other.
FilterIgnoringConflict ==
    /\ pc = "filter"
    /\ LET t == GetCredHours(current_table)
           keep == CredOk(args, t)
       IN /\ current_table' = t
          /\ valid_tables' = IF keep THEN Append(valid_tables, t) ELSE valid_tables
          /\ log' = Append(log, [cand |-> cands[ci], table |-> t,
                                 added |-> added, failed |-> failed,
                                 conflict |-> conflict, accepted |-> keep,
                                 valid_before |-> Len(valid_tables)])
    /\ ci' = ci + 1
    /\ pc' = "loop"
    /\ UNCHANGED <<table, last, args, cands, sts, si, gi, conflict, added,
                   failed, warned>>

\* The end of the loop body: the credit-hour filter on a set without
\* conflict, and the append to valid_tables.
Filter ==
    /\ pc = "filter"
    /\ LET t == IF conflict THEN current_table ELSE GetCredHours(current_table)
           keep == ~conflict /\ CredOk(args, t)
       IN /\ current_table' = t
          /\ valid_tables' = IF keep THEN Append(valid_tables, t) ELSE valid_tables
          /\ log' = Append(log, [cand |-> cands[ci], table |-> t,
                                 added |-> added, failed |-> failed,
                                 conflict |-> conflict, accepted |-> keep,
                                 valid_before |-> Len(valid_tables)])
    /\ ci' = ci + 1
    /\ pc' = "loop"
    /\ UNCHANGED <<table, last, args, cands, sts, si, gi, conflict, added,
                   failed, warned>>

\* After the loop: the warning when too few tables were built, and the return.
Return ==
    /\ pc = "warn"
    /\ warned' = (Len(valid_tables) < args.num_tables_to_generate)
    /\ pc' = "done"
    /\ UNCHANGED <<table, last, args, cands, ci, current_table, sts, si, gi,
                   conflict, added, failed, valid_tables, log>>

Next ==
    \/ Enumerate
    \/ LoopExit
    \/ BeginCandidate
    \/ NextSubject
    \/ SubjectsDone
    \/ TryGroup
    \/ GroupsExhausted
    \/ Filter
    \/ Return

Spec == Init /\ [][Next]_vars

\* build_tables on the calls of Spec and on the scenario calls.
InitWide ==
    /\ table = NewTable
    /\ last = NoCall
    /\ args \in Calls \cup ScenarioACalls \cup ScenarioCalls
    /\ pc = "start"
    /\ BuildIdle

SpecWide == InitWide /\ [][Next]_vars

\* ------------------------------------------------------------------------
\* build_tables called twice, the second time with the same subjects and
\* groups listed in another order
\* ------------------------------------------------------------------------
\* Catalogs of subjects with pairwise distinct names (each subject has
\* pairwise distinct group names).
OrderCatalogs == {<<1, 2>>, <<1, 5>>, <<7, 2>>, <<7, 5, 6>>, <<1, 2, 4>>}

OrderCalls ==
    {[catalog |-> c, min_subjects |-> mn, max_subjects |-> mx,
      min_cred_hours |-> cr[1], max_cred_hours |-> cr[2],
      priority |-> p, num_tables_to_generate |-> n] :
        c \in OrderCatalogs, mn \in {1, 2}, mx \in {2, 3},
        cr \in {<<0, 10>>, <<4, 10>>}, n \in {1, 5},
        p \in {<< >>, <<1>>, <<2, 1>>, <<2, 7>>}}

\* The orders in which the elements of seq can be listed.
Orderings(seq) ==
    {[i \in 1..Len(seq) |-> seq[f[i]]] :
        f \in {g \in [1..Len(seq) -> 1..Len(seq)] :
                  \A i \in 1..Len(seq), j \in 1..Len(seq) :
                      g[i] = g[j] => i = j}}

\* The calls that pass the subjects of call a in another order: catalog
\* and priority list permuted, and any of the subjects built with its
\* groups declared in the reverse order.
Reorderings(a) ==
    LET ids == ElemsOf(a.catalog) \cup ElemsOf(a.priority)
    IN {[a EXCEPT !.catalog = [i \in 1..Len(c) |-> r[c[i]]],
                  !.priority = [i \in 1..Len(q) |-> r[q[i]]]] :
           c \in Orderings(a.catalog), q \in Orderings(a.priority),
           r \in {h \in [ids -> ids \cup {Twin(i) : i \in ids}] :
                     \A i \in ids : h[i] \in {i, Twin(i)}}}

InitOrder ==
    /\ table = NewTable
    /\ last = NoCall
    /\ args \in OrderCalls
    /\ pc = "start"
    /\ BuildIdle

\* After the first call has returned its result is kept in last, and
\* build_tables is called again with the subjects in another order.
CallReordered ==
    /\ pc = "done"
    /\ last.op = "none"
    /\ \E a \in Reorderings(args) : args' = a
    /\ last' = [op |-> "build_tables", subject |-> 0, group |-> "",
                result |-> "returned", before |-> NewTable,
                first_args |-> args, returned |-> valid_tables,
                warned |-> warned, log |-> log]
    /\ pc' = "start"
    /\ cands' = << >>
    /\ ci' = 0
    /\ current_table' = NewTable
    /\ sts' = << >>
    /\ si' = 0
    /\ gi' = 0
    /\ conflict' = FALSE
    /\ added' = << >>
    /\ failed' = << >>
    /\ valid_tables' = << >>
    /\ warned' = FALSE
    /\ log' = << >>
    /\ UNCHANGED table

OrderNext == Next \/ CallReordered

SpecOrder == InitOrder /\ [][OrderNext]_vars

\* ------------------------------------------------------------------------
\* Properties of build_tables (Spec)
\* ------------------------------------------------------------------------
Attempting == pc \in {"subject", "group", "filter"}

Absent(p) == p \notin ElemsOf(args.catalog)

\* The credit hours of the subjects placed in t lie within the limits.
WithinLimits(t) ==
    /\ args.min_cred_hours <= CredOfSet(ElemsOf(t.subjects))
    /\ CredOfSet(ElemsOf(t.subjects)) <= args.max_cred_hours

\* Every subject of the candidate set of a finished attempt is placed.
AllPlaced(entry) == ElemsOf(entry.cand) \subseteq ElemsOf(entry.table.subjects)

\* The tables of the finished attempts whose subjects were all placed and
\* whose credit hours pass the filter, in the order of the attempts.
Schedulable ==
    LET keep == SelectSeq(log, LAMBDA e : AllPlaced(e) /\ WithinLimits(e.table))
    IN [i \in 1..Len(keep) |-> keep[i].table]

\* C2: in every returned grid each occupied cell holds a record of a
\* placed subject and of the group whose add_subject call succeeded for
\* it; no cell holds a record written by a call that raised ScheduleError.
C2_CellsHoldOnlyChosenGroups ==
    \A i \in 1..Len(log) :
        log[i].accepted =>
            \A x \in Slots :
                LET c == log[i].table.cells[x[1]][x[2]]
                IN c # None =>
                     /\ c.subject \in ElemsOf(log[i].table.subjects)
                     /\ <<c.subject, c.group>> \in ElemsOf(log[i].added)
                     /\ <<c.subject, c.group>> \notin ElemsOf(log[i].failed)

\* C6: every returned grid holds a number of placed subjects between
\* min_subjects and max_subjects.
C6_SubjectCountWithinBounds ==
    \A i \in 1..Len(valid_tables) :
        /\ args.min_subjects <= Len(valid_tables[i].subjects)
        /\ Len(valid_tables[i].subjects) <= args.max_subjects

\* C7: every returned grid has total credit hours within
\* [min_cred_hours, max_cred_hours], and a candidate set whose subjects
\* were all placed but whose total is outside contributes no grid.
C7_CredHoursWithinLimits ==
    /\ \A i \in 1..Len(valid_tables) : WithinLimits(valid_tables[i])
    /\ \A j \in 1..Len(log) :
          (AllPlaced(log[j]) /\ ~WithinLimits(log[j].table))
          => /\ ~log[j].accepted
             /\ \A i \in 1..Len(valid_tables) : valid_tables[i] # log[j].table

\* C7 witness: one set was placed in full and refused for its total, and
\* a later set of the same call was accepted.
C7_Witness ==
    /\ pc = "done"
    /\ \E j \in 1..Len(log) :
          /\ AllPlaced(log[j])
          /\ ~log[j].conflict
          /\ ~WithinLimits(log[j].table)
          /\ \E k \in (j + 1)..Len(log) : log[k].accepted
    /\ Len(valid_tables) >= 1

\* C8: every returned grid holds every priority subject that is in the
\* catalog; a priority subject absent from the catalog is in no candidate
\* set and in no returned grid.
C8_PrioritySubjectsInEveryGrid ==
    \A p \in ElemsOf(args.priority) :
        /\ ~Absent(p) =>
              \A i \in 1..Len(valid_tables) : p \in ElemsOf(valid_tables[i].subjects)
        /\ Absent(p) =>
              /\ \A i \in 1..Len(valid_tables) :
                    /\ p \notin ElemsOf(valid_tables[i].subjects)
                    /\ \A x \in Slots : valid_tables[i].cells[x[1]][x[2]].subject # p
              /\ \A j \in 1..Len(cands) : p \notin ElemsOf(cands[j])

\* C8 witness: the priority subject sorts after the other subject of the
\* catalog and both are in the returned grid.
C8_Witness ==
    /\ pc = "done"
    /\ args.priority = <<2>>
    /\ args.catalog = <<1, 2>>
    /\ Len(valid_tables) = 1
    /\ valid_tables[1].subjects = <<1, 2>>

\* C9: the returned list never holds more than num_tables_to_generate
\* grids, no candidate set is attempted once that many are accepted, and
\* with num_tables_to_generate = 0 nothing is attempted or returned.
C9_StopsAtRequestedCount ==
    /\ Len(valid_tables) <= args.num_tables_to_generate
    /\ \A j \in 1..Len(log) : log[j].valid_before < args.num_tables_to_generate
    /\ Attempting => Len(valid_tables) < args.num_tables_to_generate
    /\ args.num_tables_to_generate = 0 =>
          /\ valid_tables = << >>
          /\ log = << >>
          /\ ~Attempting

\* C9 witness: the call returned the two grids asked for and left a
\* candidate set untried.
C9_Witness ==
    /\ pc = "done"
    /\ args.num_tables_to_generate = 2
    /\ Len(valid_tables) = 2
    /\ Len(log) < Len(cands)

\* C10: on return the warning was printed exactly when fewer grids than
\* requested are returned, and in that case every candidate set was
\* attempted and the result is exactly the grids of the sets that were
\* placed in full and pass the credit-hour filter.
C10_ShortfallReturnsAllAndWarns ==
    pc = "done" =>
        /\ warned <=> (Len(valid_tables) < args.num_tables_to_generate)
        /\ valid_tables = Schedulable
        /\ warned =>
              /\ Len(log) = Len(cands)
              /\ \A j \in 1..Len(log) : log[j].cand = cands[j]

\* C10 witness: two grids were asked for, one candidate set failed, one
\* was returned, and the warning was printed.
C10_Witness ==
    /\ pc = "done"
    /\ warned
    /\ args.num_tables_to_generate = 2
    /\ Len(valid_tables) = 1
    /\ \E j \in 1..Len(log) : log[j].conflict

\* ------------------------------------------------------------------------
\* Properties of the search order of build_tables
\* ------------------------------------------------------------------------
\* The grid slots the groups of a subject named group_name address.
GroupSlots(subject, group_name) ==
    LET pl == GroupsPlacements(subject.groups, group_name, 1)
    IN {<<pl[i].day, Index(pl[i].period)>> :
           i \in {j \in 1..Len(pl) : InRange(pl[j].period)}}

GroupNamesOf(subject) == {subject.groups[i].name : i \in 1..Len(subject.groups)}

\* p has one group, s has two groups of different names, and g is the one
\* group of s that shares a slot with the group of p.
OnlyOverlap(p, s, g) ==
    /\ Len(Obj(p).groups) = 1
    /\ Len(Obj(s).groups) = 2
    /\ Cardinality(GroupNamesOf(Obj(s))) = 2
    /\ g \in GroupNamesOf(Obj(s))
    /\ \A h \in GroupNamesOf(Obj(s)) :
          (GroupSlots(Obj(s), h) \cap
           GroupSlots(Obj(p), Obj(p).groups[1].name) # {}) <=> (h = g)

\* The call is Scenario B for priority subject p and subject s: the
\* catalog holds the two, and the bounds admit the set {p, s} and no other.
ScenarioB(p, s) ==
    /\ p # s
    /\ args.priority = <<p>>
    /\ Len(args.catalog) = 2
    /\ ElemsOf(args.catalog) = {p, s}
    /\ args.min_subjects = 2
    /\ args.max_subjects >= 2
    /\ args.min_cred_hours <= Obj(p).cred_hours + Obj(s).cred_hours
    /\ Obj(p).cred_hours + Obj(s).cred_hours <= args.max_cred_hours
    /\ args.num_tables_to_generate >= 1

\* C11: for a priority subject p and a subject s with two groups of which
\* exactly one overlaps the group of p, build_tables returns a grid that
\* holds p and s, with s in the cells of its other group and no cell
\* holding a record of the overlapping group.
C11_NonConflictingGroupOnly ==
    \A p \in Ids, s \in Ids, g \in GroupNames :
        (pc = "done" /\ ScenarioB(p, s) /\ OnlyOverlap(p, s, g))
        => \E i \in 1..Len(valid_tables) :
              /\ {p, s} \subseteq ElemsOf(valid_tables[i].subjects)
              /\ \A h \in GroupNamesOf(Obj(s)) \ {g} :
                    \A x \in GroupSlots(Obj(s), h) :
                        /\ valid_tables[i].cells[x[1]][x[2]].subject = s
                        /\ valid_tables[i].cells[x[1]][x[2]].group = h
              /\ \A x \in Slots :
                    ~(/\ valid_tables[i].cells[x[1]][x[2]].subject = s
                      /\ valid_tables[i].cells[x[1]][x[2]].group = g)
\* The cells of a table that hold a record.
Occupied(t) == {x \in Slots : t.cells[x[1]][x[2]] # None}

\* C12: in every returned grid the groups chosen for two distinct placed
\* subjects share no cell; in Scenario A exactly 2 grids are returned,
\* each holding one of the two subjects alone with 3 credit hours.
C12_ChosenGroupsDisjoint ==
    /\ \A j \in 1..Len(log) :
          log[j].accepted =>
             \A a \in 1..Len(log[j].added), b \in 1..Len(log[j].added) :
                a # b =>
                   GroupSlots(Obj(log[j].added[a][1]), log[j].added[a][2]) \cap
                   GroupSlots(Obj(log[j].added[b][1]), log[j].added[b][2]) = {}
    /\ (pc = "done" /\ args \in ScenarioACalls) =>
          /\ Len(valid_tables) = 2
          /\ \A i \in 1..2 :
                /\ Len(valid_tables[i].subjects) = 1
                /\ valid_tables[i].subjects[1] \in ElemsOf(args.catalog)
                /\ valid_tables[i].cred_hours = 3
                /\ \A x \in Occupied(valid_tables[i]) :
                      valid_tables[i].cells[x[1]][x[2]].subject
                          = valid_tables[i].subjects[1]
          /\ valid_tables[1].subjects # valid_tables[2].subjects

\* C12 witness: Scenario A has returned; the set of both subjects was
\* tried between the two accepted ones and met the conflict.
C12_Witness ==
    /\ pc = "done"
    /\ args \in ScenarioACalls
    /\ Len(valid_tables) = 2
    /\ Len(log) = 3
    /\ log[2].conflict
    /\ Len(log[2].cand) = 2
    /\ warned

\* The cells of the groups chosen for the first n placed subjects.
ChosenSlots(placed, n) ==
    UNION {GroupSlots(Obj(placed[i][1]), placed[i][2]) : i \in 1..n}

\* Group g of the k-th placed subject is disjoint from the groups chosen
\* for the subjects placed before it.
Fits(placed, k, g) ==
    GroupSlots(Obj(placed[k][1]), g) \cap ChosenSlots(placed, k - 1) = {}

\* C15: within one candidate set the search is first-fit in name order:
\* subjects are placed in ascending subject-name order, and the group
\* chosen for each placed subject is the smallest group name of that
\* subject whose cells are all disjoint from the cells of the groups chosen
\* for the subjects placed before it.
C15_FirstFitInNameOrder ==
    \A j \in 1..Len(log) :
        LET placed == log[j].added IN
        /\ \A k \in 1..(Len(placed) - 1) :
               ~StrLess(Obj(placed[k + 1][1]).name, Obj(placed[k][1]).name)
        /\ \A k \in 1..Len(placed) :
               /\ Fits(placed, k, placed[k][2])
               /\ \A g \in GroupNamesOf(Obj(placed[k][1])) :
                      Fits(placed, k, g) => ~StrLess(g, placed[k][2])

\* The priority subjects present in the catalog, and the other catalog
\* subjects.
PresentPriority == ElemsOf(args.priority) \cap ElemsOf(args.catalog)

OtherSubjects == ElemsOf(args.catalog) \ PresentPriority

\* The candidate sets the search should attempt.
ExpectedCandidates ==
    {PresentPriority \cup C : C \in
        {D \in SUBSET OtherSubjects :
            /\ args.min_subjects <= Cardinality(PresentPriority) + Cardinality(D)
            /\ Cardinality(PresentPriority) + Cardinality(D) <= args.max_subjects}}

\* The search ended without the early stop at the requested count.
NoEarlyStop == pc = "done" /\ Len(valid_tables) < args.num_tables_to_generate

\* C16: without an early stop the candidate sets attempted are exactly the
\* sets (catalog-present priority subjects) union C, for every subset C of
\* the other catalog subjects whose total size lies within [min_subjects,
\* max_subjects], each attempted exactly once; with more catalog-present
\* priority subjects than max_subjects nothing is attempted and the result
\* is empty.
C16_AttemptsEachCandidateOnce ==
    NoEarlyStop =>
        /\ \A j \in 1..Len(log) : ElemsOf(log[j].cand) \in ExpectedCandidates
        /\ \A E \in ExpectedCandidates :
               Cardinality({j \in 1..Len(log) : ElemsOf(log[j].cand) = E}) = 1
        /\ Cardinality(PresentPriority) > args.max_subjects
               => (Len(log) = 0 /\ valid_tables = << >>)

\* The sorted name tuple of a is less than or equal to that of b.
NamesAscending(a, b) == ~TupleLess(SortKey(b), SortKey(a))

\* C17: candidate sets are attempted, and accepted grids appear in the
\* result, in ascending lexicographic order of the tuple of their sorted
\* subject names: for grids at positions i < j the name tuple of grid i is
\* less than or equal to that of grid j, and after an early stop no
\* unattempted candidate has a smaller tuple than an attempted one.
C17_AscendingNameTupleOrder ==
    /\ \A i \in 1..Len(log), j \in 1..Len(log) :
           i < j => NamesAscending(log[i].cand, log[j].cand)
    /\ \A i \in 1..Len(valid_tables), j \in 1..Len(valid_tables) :
           i < j => NamesAscending(valid_tables[i].subjects,
                                   valid_tables[j].subjects)
    /\ pc = "done" =>
           \A j \in 1..Len(log), k \in (Len(log) + 1)..Len(cands) :
               NamesAscending(log[j].cand, cands[k])

\* Some subject of the attempt e was refused with every one of its groups.
Exhausted(e) ==
    \E s \in ElemsOf(e.cand) :
        \A g \in GroupNamesOf(Obj(s)) : <<s, g>> \in ElemsOf(e.failed)

\* The number of grids in the result after the j-th attempt.
ValidAfter(j) ==
    IF j < Len(log) THEN log[j + 1].valid_before ELSE Len(valid_tables)

IsPrefix(a, b) == Len(a) <= Len(b) /\ \A i \in 1..Len(a) : a[i] = b[i]

\* Group g of subject s lies inside the grid and meets no cell twice.
WellFormedGroup(s, g) ==
    LET pl == GroupsPlacements(Obj(s).groups, g, 1)
    IN /\ g \in GroupNamesOf(Obj(s))
       /\ \A i \in 1..Len(pl) : pl[i].period \in 0..(Size - 1)
       /\ Cardinality(GroupSlots(Obj(s), g)) = Len(pl)

\* The subjects of ids have a conflict-free assignment of one group each.
HasConflictFreeAssignment(ids) ==
    \E f \in [ids -> GroupNames] :
        /\ \A s \in ids : WellFormedGroup(s, f[s])
        /\ \A s1 \in ids, s2 \in ids :
               s1 # s2 => GroupSlots(Obj(s1), f[s1]) \cap GroupSlots(Obj(s2), f[s2]) = {}

\* The cells of every group chosen so far in the attempt still hold it.
ChosenGroupsKept ==
    (pc \in {"subject", "group", "filter"}) =>
        \A k \in 1..Len(added) :
            \A x \in GroupSlots(Obj(added[k][1]), added[k][2]) :
                /\ current_table.cells[x[1]][x[2]].subject = added[k][1]
                /\ current_table.cells[x[1]][x[2]].group = added[k][2]

\* A step inside an attempt never goes back to an earlier subject or
\* withdraws a chosen group, and a subject out of groups ends the attempt.
NoStepBack ==
    (pc \in {"subject", "group"}) =>
        /\ si' >= si
        /\ sts' = sts
        /\ IsPrefix(added, added')
        /\ (pc = "group" /\ gi > Len(DeterministicGroups(Obj(sts[si]))))
              => (pc' = "filter" /\ current_table' = current_table)

\* C18: build_tables never backtracks across subjects: once a subject of a
\* candidate set has failed with every one of its groups, no grid is
\* returned for that attempt, and the group chosen for an earlier subject
\* is never revisited. (The witness is a candidate set that has a
\* conflict-free assignment of one group per subject and still gets no
\* grid.)
C18_NoBacktracking ==
    /\ [](\A j \in 1..Len(log) :
             Exhausted(log[j]) =>
                 /\ log[j].conflict
                 /\ ~log[j].accepted
                 /\ ValidAfter(j) = log[j].valid_before)
    /\ []ChosenGroupsKept
    /\ [][NoStepBack]_vars

C18_Witness ==
    /\ pc = "done"
    /\ \E j \in 1..Len(log) :
          /\ Exhausted(log[j])
          /\ Len(log[j].added) >= 1
          /\ HasConflictFreeAssignment(ElemsOf(log[j].cand))
          /\ \A i \in 1..Len(valid_tables) :
                 ElemsOf(valid_tables[i].subjects) # ElemsOf(log[j].cand)

\* The add_subject call about to be made in the group loop raises an error
\* other than ScheduleError and DuplicateSubjectError.
OtherErrorRaised ==
    /\ pc = "group"
    /\ gi <= Len(DeterministicGroups(Obj(sts[si])))
    /\ AddSubject(current_table, Obj(sts[si]),
                  DeterministicGroups(Obj(sts[si]))[gi].name).result
           \notin {"ok", "ScheduleError", "DuplicateSubjectError"}

\* The attempt e was given up although no subject had run out of groups:
\* it met such an error.
OtherError(e) == e.conflict /\ ~Exhausted(e)

\* C19: when add_subject raises an error other than ScheduleError or
\* DuplicateSubjectError during an attempt, the candidate set contributes no
\* grid, no further group of that subject and no further subject of the set
\* is tried, every later candidate set in the sorted order is still
\* attempted, and build_tables returns normally.
C19_OtherErrorAbortsOnlyTheCandidate ==
    /\ [][OtherErrorRaised =>
              /\ pc' = "filter"
              /\ conflict'
              /\ si' = si
              /\ added' = added
              /\ failed' = failed
              /\ valid_tables' = valid_tables]_vars
    /\ [][(pc = "filter" /\ conflict) =>
              /\ pc' = "loop"
              /\ ci' = ci + 1
              /\ valid_tables' = valid_tables
              /\ current_table' = current_table]_vars
    /\ [](\A j \in 1..Len(log) :
             OtherError(log[j]) =>
                 /\ ~log[j].accepted
                 /\ ValidAfter(j) = log[j].valid_before)
    /\ [](pc = "done" =>
             /\ Len(log) = Len(cands) \/ Enough(valid_tables, args)
             /\ \A j \in 1..Len(log) : log[j].cand = cands[j])

C19_Witness ==
    /\ pc = "done"
    /\ \E j \in 1..(Len(log) - 1) :
          /\ OtherError(log[j])
          /\ \E s \in ElemsOf(log[j].cand) :
                \E i \in 1..Len(Obj(s).groups) :
                    LET g == Obj(s).groups[i].name
                        pl == GroupsPlacements(Obj(s).groups, g, 1)
                    IN /\ \E k \in 1..Len(pl) : pl[k].period >= Size
                       /\ <<s, g>> \notin ElemsOf(log[j].added)
                       /\ <<s, g>> \notin ElemsOf(log[j].failed)
                       /\ \A h \in GroupNamesOf(Obj(s)) :
                              StrLess(g, h) =>
                                  /\ <<s, h>> \notin ElemsOf(log[j].added)
                                  /\ <<s, h>> \notin ElemsOf(log[j].failed)
          /\ log[j + 1].accepted
          /\ log[Len(log)].cand = cands[Len(cands)]

\* ------------------------------------------------------------------------
\* Period bounds at placement (SpecTable)
\* ------------------------------------------------------------------------
\* The last call was add_subject with a group that has a placement whose
\* period lies outside [0, size).
LastPeriodOutOfBounds ==
    /\ last.op = "add_subject"
    /\ last.result \notin {"ValueError", "DuplicateSubjectError"}
    /\ \E i \in 1..Len(LastPlacements) :
          LastPlacements[i].period < 0 \/ LastPlacements[i].period >= Size

\* C20: add_subject with a chosen group that has any placement whose period
\* is negative or greater than or equal to the grid size does not succeed,
\* and it leaves every cell and the placed-subject list unchanged.
C20_PeriodBoundsEnforced ==
    LastPeriodOutOfBounds =>
        /\ last.result # "ok"
        /\ table.cells = last.before.cells
        /\ table.subjects = last.before.subjects

\* C22: add_subject raises ScheduleError only when some target cell of the
\* chosen group was occupied before the call began; a group whose own
\* events list the same (day, period) more than once is placed like any
\* other when its target cells are empty before the call.
C22_ScheduleErrorOnlyWhenOccupiedBefore ==
    (last.op = "add_subject" /\ last.result = "ScheduleError")
        => LastTargetedOccupied

\* ------------------------------------------------------------------------
\* Properties of Table.merge (SpecMerge)
\* ------------------------------------------------------------------------
\* The grid merge(other) should leave: other's record wherever other is
\* occupied, the record held before the call everywhere else.
UnionCells(before, other) ==
    [day \in DaySet |-> [p \in 0..(Size - 1) |->
        IF other.cells[day][p] # None THEN other.cells[day][p]
        ELSE before.cells[day][p]]]

\* C13: when no cell is occupied in both grids, merge(other) succeeds and
\* leaves this grid with exactly the union of the occupied cells: other's
\* record at every cell occupied in other, every cell occupied in this grid
\* before the call unchanged.
C13_MergeOfDisjointGridsIsUnion ==
    (/\ last.op = "merge"
     /\ Occupied(last.before) \cap Occupied(last.other) = {})
        => /\ last.result = "ok"
           /\ table.cells = UnionCells(last.before, last.other)

\* The cells occupied in both grids of the last merge call.
Collisions == Occupied(last.before) \cap Occupied(last.other)

NamedGrid(t) ==
    [subjects |-> [i \in 1..Len(t.subjects) |-> Obj(t.subjects[i]).name],
     cred_hours |-> t.cred_hours,
     cells |-> [day \in DaySet |-> [p \in 0..(Size - 1) |->
                  IF t.cells[day][p] = None
                  THEN [subject |-> "", group |-> "", event |-> ""]
                  ELSE [subject |-> Obj(t.cells[day][p].subject).name,
                        group |-> t.cells[day][p].group,
                        event |-> t.cells[day][p].event]]]]

NamedGrids(tables) == [i \in 1..Len(tables) |-> NamedGrid(tables[i])]

\* The groups chosen in each accepted attempt, subjects by name.
NamedChoices(l) ==
    LET acc == SelectSeq(l, LAMBDA e : e.accepted)
    IN [j \in 1..Len(acc) |->
           [k \in 1..Len(acc[j].added) |->
               <<Obj(acc[j].added[k][1]).name, acc[j].added[k][2]>>]]

\* The second call has returned.
BothReturned == pc = "done" /\ last.op = "build_tables"

\* C23: with pairwise distinct subject names in the catalog and pairwise
\* distinct group names within each subject, the list returned by
\* build_tables (subjects, chosen groups and cell contents of each grid, in
\* order) does not depend on the order in which subjects are listed in the
\* catalog or in the priority list, nor on the order in which groups are
\* declared inside a subject.
C23_ResultIndependentOfListingOrder ==
    BothReturned =>
        /\ NamedGrids(valid_tables) = NamedGrids(last.returned)
        /\ NamedChoices(log) = NamedChoices(last.log)
        /\ warned = last.warned

\* Both calls returned two grids or more, the second call listed the
\* catalog in another order and declared the groups of a placed subject in
\* another order, and a group tried before the chosen one was refused.
C23_Witness ==
    /\ BothReturned
    /\ Len(valid_tables) >= 2
    /\ NamesOf(args.catalog) # NamesOf(last.first_args.catalog)
    /\ \E j \in 1..Len(log) :
          /\ log[j].accepted
          /\ Len(log[j].failed) >= 1
          /\ \E k \in 1..Len(log[j].added) :
                /\ log[j].added[k][1] > 100
                /\ Len(Obj(log[j].added[k][1]).groups) >= 2
====
